---- MODULE Spec2Model ----
(***************************************************************************)
(* Model of pdcli.py: the PagerDuty background auto-acknowledge daemon     *)
(* (background_ack) together with the API client, the age evaluator and    *)
(* the notifier it calls.                                                  *)
(*                                                                         *)
(* Time is counted in ticks of half a minute, so that fractional ages      *)
(* (the code's float minutes) exist.  The remote service, the clock, the   *)
(* terminal, the osascript helper and the interrupt signal are the         *)
(* environment; everything else is the program.                            *)
(***************************************************************************)
EXTENDS Integers, Sequences, FiniteSets, TLC

\* ---------------------------------------------------------------- bounds
NumIncidents == 2          \* incidents known to the remote service
MaxCycles == 2             \* daemon cycles explored
MaxEnv == 1                \* environment steps: clock ticks inside a cycle, status changes by others

\* ------------------------------------------------------ program constants
HTTP_OK == 200
TicksPerMinute == 2
Now0 == 4                  \* clock reading when the daemon starts

Ids == 1..NumIncidents
Statuses == {"triggered", "acknowledged", "resolved"}
\* --interval is type=int with no range check: any integer reaches the daemon
Intervals == {-1, 0, 1}
\* created_at strings: an instant and the textual form it is written in
CreatedAts == { [t |-> 0, fmt |-> "Z"],        \* 2024-01-01T00:00:00Z
                [t |-> 3, fmt |-> "offset"],   \* ...T00:01:30.000000+00:00
                [t |-> 0, fmt |-> "garbage"] } \* not ISO-8601

VARIABLES
  \* program state (background_ack's locals and position)
  pc, interval_minutes, user_id, acc, incidents, triggered, idx,
  \* environment
  remote, created_at, now,
  \* history of the current cycle
  fetchedOk, snapshot, fetchTime, fetchFailed, evaluated, attempts, notes,
  chan, raisedBy, prevAttempts,
  \* history of the run
  cycle, resolves, sleeps, exitBy, stopMsg, interruptedAt,
  \* steps taken by the environment
  envMoves

progVars == <<pc, interval_minutes, user_id, acc, incidents, triggered, idx>>
envVars == <<remote, created_at, now>>
cycleHist == <<fetchedOk, snapshot, fetchTime, fetchFailed, evaluated, attempts,
               notes, chan, raisedBy, prevAttempts>>
runHist == <<cycle, resolves, sleeps, exitBy, stopMsg, interruptedAt>>
budgets == <<envMoves>>
vars == <<progVars, envVars, cycleHist, runHist, budgets>>

\* ------------------------------------------------------------ pure helpers
RECURSIVE SeqOfIds(_, _)
SeqOfIds(lo, hi) == IF lo > hi THEN <<>> ELSE <<lo>> \o SeqOfIds(lo + 1, hi)

Range(s) == { s[k] : k \in 1..Len(s) }

\* ids whose acknowledgment returned False in the previous cycle
PrevFalse == { a.id : a \in { b \in Range(prevAttempts) : b.res = "false" } }
IdsOf(s) == { s[k].id : k \in 1..Len(s) }

\* The record the service returns for incident i
Record(i) == [id |-> i, status |-> remote[i], created_at |-> created_at[i]]

\* GET /incidents?statuses[]=status : the incidents in that status, in the
\* service's order
IncidentsResponse(status) ==
  LET all == SeqOfIds(1, NumIncidents)
      sel == SelectSeq(all, LAMBDA i : remote[i] = status)
  IN [k \in 1..Len(sel) |-> Record(sel[k])]

\* parse_created_at: "Z" is rewritten to "+00:00" and fromisoformat is applied;
\* a string that is not ISO-8601 raises ValueError
parse_created_at(c) ==
  IF c.fmt = "garbage" THEN [raises |-> TRUE, t |-> 0]
  ELSE [raises |-> FALSE, t |-> c.t]

\* get_incident_age_minutes(incident), read at clock n: the age in ticks
\* (minutes * TicksPerMinute), or a raise from the parse
get_incident_age_minutes(inc, n) ==
  LET created == parse_created_at(inc.created_at)
  IN IF created.raises THEN [raises |-> TRUE, age |-> 0]
     ELSE [raises |-> FALSE, age |-> n - created.t]

\* if age_min >= interval_minutes  (age in ticks)
IsEligible_strict(age, interval) == age > interval * TicksPerMinute
IsEligible(age, interval) == age >= interval * TicksPerMinute

\* triggered = [i for i in incidents if i["status"] == "triggered"]
FilterTriggered_all(incs) == incs
FilterTriggered_skipFailed(incs) ==
  SelectSeq(incs, LAMBDA i : i.status = "triggered" /\ i.id \notin PrevFalse)
FilterTriggered(incs) == SelectSeq(incs, LAMBDA i : i.status = "triggered")

\* return resp.status_code == 200
acknowledge_result(status_code) == status_code = HTTP_OK

\* sleep_seconds = interval_minutes * 60, in ticks
sleep_ticks == interval_minutes * TicksPerMinute

NoChan == [term |-> "none", mac |-> "none"]
InTry == {"fetch_triggered", "fetch_acknowledged", "loop",
          "notify_terminal", "notify_macos", "sleep"}
Terminal == {"stopped", "crashed"}

\* --------------------------------------------------------------- initial
Init ==
  /\ pc = "start"
  /\ interval_minutes \in Intervals
  /\ user_id = "none"
  /\ acc = <<>>
  /\ incidents = <<>>
  /\ triggered = <<>>
  /\ idx = 0
  /\ remote \in [Ids -> {"triggered", "acknowledged"}]
  /\ created_at \in [Ids -> CreatedAts]
  /\ now = Now0
  /\ cycle = 0
  /\ resolves = 0
  /\ fetchedOk = FALSE
  /\ snapshot = <<>>
  /\ fetchTime = 0
  /\ fetchFailed = FALSE
  /\ evaluated = <<>>
  /\ attempts = <<>>
  /\ notes = <<>>
  /\ chan = NoChan
  /\ raisedBy = "none"
  /\ sleeps = 0
  /\ prevAttempts = <<>>
  /\ exitBy = "none"
  /\ stopMsg = FALSE
  /\ interruptedAt = "none"
  /\ envMoves = 0

\* ------------------------------------------------- startup (lines 232-236)
\* user_id = get_current_user_id(api_key), outside the try: a failure is fatal
ResolveUserOk ==
  /\ pc = "start"
  /\ pc' = "fetch_triggered"
  /\ user_id' = "U1"
  /\ resolves' = resolves + 1
  /\ cycle' = 1
  /\ UNCHANGED <<interval_minutes, acc, incidents, triggered, idx>>
  /\ UNCHANGED <<envVars, cycleHist, sleeps, exitBy, stopMsg, interruptedAt, budgets>>

ResolveUserFail ==
  /\ pc = "start"
  /\ pc' = "crashed"
  /\ resolves' = resolves + 1
  /\ exitBy' = "startup"
  /\ UNCHANGED <<interval_minutes, user_id, acc, incidents, triggered, idx>>
  /\ UNCHANGED <<envVars, cycleHist, cycle, sleeps, stopMsg, interruptedAt, budgets>>

\* An exception raised inside the try block: control moves to
\* "except Exception as e" (line 262)
Raise(kind) ==
  /\ pc' = "handler"
  /\ raisedBy' = kind

\* ---------------------------------------------- get_incidents (lines 74-89)
\* first request of the loop over ["triggered", "acknowledged"]
FetchTriggeredOk ==
  /\ pc = "fetch_triggered"
  /\ pc' = "fetch_acknowledged"
  /\ acc' = IncidentsResponse("triggered")
  /\ UNCHANGED <<interval_minutes, user_id, incidents, triggered, idx>>
  /\ UNCHANGED <<envVars, cycleHist, runHist, budgets>>

\* resp.raise_for_status() (or the transport) raises on the first request
FetchTriggeredFail ==
  /\ pc = "fetch_triggered"
  /\ Raise("fetch_triggered")
  /\ fetchFailed' = TRUE
  /\ acc' = <<>>
  /\ UNCHANGED <<interval_minutes, user_id, incidents, triggered, idx>>
  /\ UNCHANGED <<envVars, runHist, budgets>>
  /\ UNCHANGED <<fetchedOk, snapshot, fetchTime, evaluated, attempts, notes, chan, prevAttempts>>

\* second request succeeds: get_incidents returns the concatenation, and
\* line 241 filters it
FetchAcknowledgedOk_stale ==
  /\ pc = "fetch_acknowledged"
  /\ pc' = "loop"
  /\ LET result == acc \o IncidentsResponse("acknowledged")
     IN /\ incidents' = result
        /\ triggered' = IF cycle = 1 THEN FilterTriggered(result) ELSE triggered
        /\ snapshot' = result
  /\ idx' = 1
  /\ acc' = <<>>
  /\ fetchedOk' = TRUE
  /\ fetchTime' = now
  /\ UNCHANGED <<interval_minutes, user_id>>
  /\ UNCHANGED <<envVars, runHist, budgets>>
  /\ UNCHANGED <<fetchFailed, evaluated, attempts, notes, chan, raisedBy, prevAttempts>>

FetchAcknowledgedOk_reversed ==
  /\ pc = "fetch_acknowledged"
  /\ pc' = "loop"
  /\ LET result == IncidentsResponse("acknowledged") \o acc
     IN /\ incidents' = result
        /\ triggered' = FilterTriggered(result)
        /\ snapshot' = result
  /\ idx' = 1
  /\ acc' = <<>>
  /\ fetchedOk' = TRUE
  /\ fetchTime' = now
  /\ UNCHANGED <<interval_minutes, user_id>>
  /\ UNCHANGED <<envVars, runHist, budgets>>
  /\ UNCHANGED <<fetchFailed, evaluated, attempts, notes, chan, raisedBy, prevAttempts>>

FetchAcknowledgedOk ==
  /\ pc = "fetch_acknowledged"
  /\ pc' = "loop"
  /\ LET result == acc \o IncidentsResponse("acknowledged")
     IN /\ incidents' = result
        /\ triggered' = FilterTriggered(result)
        /\ snapshot' = result
  /\ idx' = 1
  /\ acc' = <<>>
  /\ fetchedOk' = TRUE
  /\ fetchTime' = now
  /\ UNCHANGED <<interval_minutes, user_id>>
  /\ UNCHANGED <<envVars, runHist, budgets>>
  /\ UNCHANGED <<fetchFailed, evaluated, attempts, notes, chan, raisedBy, prevAttempts>>

\* second request raises: the partial list is dropped with get_incidents' frame
FetchAcknowledgedFail_partial ==
  /\ pc = "fetch_acknowledged"
  /\ pc' = "loop"
  /\ incidents' = acc
  /\ triggered' = FilterTriggered(acc)
  /\ idx' = 1
  /\ fetchFailed' = TRUE
  /\ acc' = <<>>
  /\ UNCHANGED <<interval_minutes, user_id>>
  /\ UNCHANGED <<envVars, runHist, budgets>>
  /\ UNCHANGED <<fetchedOk, snapshot, fetchTime, evaluated, attempts, notes, chan,
                 raisedBy, prevAttempts>>

FetchAcknowledgedFail ==
  /\ pc = "fetch_acknowledged"
  /\ Raise("fetch_acknowledged")
  /\ fetchFailed' = TRUE
  /\ acc' = <<>>
  /\ UNCHANGED <<interval_minutes, user_id, incidents, triggered, idx>>
  /\ UNCHANGED <<envVars, runHist, budgets>>
  /\ UNCHANGED <<fetchedOk, snapshot, fetchTime, evaluated, attempts, notes, chan, prevAttempts>>

\* ------------------------------------- for inc in triggered (lines 243-255)
AtIncident == pc = "loop" /\ idx <= Len(triggered)
Inc == triggered[idx]
Age == get_incident_age_minutes(Inc, now)
Evaluation == [id |-> Inc.id, age |-> Age.age, pos |-> idx]

\* get_incident_age_minutes raises (line 244)
EvaluateRaises_continue ==
  /\ AtIncident
  /\ Age.raises
  /\ idx' = idx + 1
  /\ UNCHANGED <<pc, interval_minutes, user_id, acc, incidents, triggered>>
  /\ UNCHANGED <<envVars, cycleHist, runHist, budgets>>

EvaluateRaises ==
  /\ AtIncident
  /\ Age.raises
  /\ Raise("timestamp")
  /\ UNCHANGED <<interval_minutes, user_id, acc, incidents, triggered, idx>>
  /\ UNCHANGED <<envVars, runHist, budgets>>
  /\ UNCHANGED <<fetchedOk, snapshot, fetchTime, fetchFailed, evaluated, attempts,
                 notes, chan, prevAttempts>>

\* age_min < interval_minutes: nothing is done for the incident
SkipYoung ==
  /\ AtIncident
  /\ ~Age.raises
  /\ ~IsEligible(Age.age, interval_minutes)
  /\ evaluated' = Append(evaluated, Evaluation)
  /\ idx' = idx + 1
  /\ UNCHANGED <<pc, interval_minutes, user_id, acc, incidents, triggered>>
  /\ UNCHANGED <<envVars, runHist, budgets>>
  /\ UNCHANGED <<fetchedOk, snapshot, fetchTime, fetchFailed, attempts, notes, chan,
                 raisedBy, prevAttempts>>

Attempt(res) == [id |-> Inc.id, rec |-> Inc, age |-> Age.age, pos |-> idx,
                 res |-> res]

\* acknowledge_incident returns True: the service answered 200 and the
\* incident is acknowledged; lines 247-254 then log and compose the
\* notification text
AcknowledgeTrue ==
  /\ AtIncident
  /\ ~Age.raises
  /\ IsEligible(Age.age, interval_minutes)
  /\ remote[Inc.id] # "resolved"
  /\ acknowledge_result(HTTP_OK)
  /\ remote' = [remote EXCEPT ![Inc.id] = "acknowledged"]
  /\ evaluated' = Append(evaluated, Evaluation)
  /\ attempts' = Append(attempts, Attempt("true"))
  /\ chan' = NoChan
  /\ pc' = "notify_terminal"
  /\ UNCHANGED <<interval_minutes, user_id, acc, incidents, triggered, idx>>
  /\ UNCHANGED <<created_at, now, runHist, budgets>>
  /\ UNCHANGED <<fetchedOk, snapshot, fetchTime, fetchFailed, notes, raisedBy, prevAttempts>>

\* acknowledge_incident returns False: any status code other than 200
AcknowledgeFalse_notify ==
  /\ AtIncident
  /\ ~Age.raises
  /\ IsEligible(Age.age, interval_minutes)
  /\ \E status_code \in {HTTP_OK, 409} : ~acknowledge_result(status_code)
  /\ evaluated' = Append(evaluated, Evaluation)
  /\ attempts' = Append(attempts, Attempt("false"))
  /\ chan' = NoChan
  /\ pc' = "notify_terminal"
  /\ UNCHANGED <<interval_minutes, user_id, acc, incidents, triggered, idx>>
  /\ UNCHANGED <<envVars, runHist, budgets>>
  /\ UNCHANGED <<fetchedOk, snapshot, fetchTime, fetchFailed, notes, raisedBy, prevAttempts>>

AcknowledgeFalse ==
  /\ AtIncident
  /\ ~Age.raises
  /\ IsEligible(Age.age, interval_minutes)
  /\ \E status_code \in {HTTP_OK, 409} : ~acknowledge_result(status_code)
  /\ evaluated' = Append(evaluated, Evaluation)
  /\ attempts' = Append(attempts, Attempt("false"))
  /\ idx' = idx + 1
  /\ UNCHANGED <<pc, interval_minutes, user_id, acc, incidents, triggered>>
  /\ UNCHANGED <<envVars, runHist, budgets>>
  /\ UNCHANGED <<fetchedOk, snapshot, fetchTime, fetchFailed, notes, chan, raisedBy,
                 prevAttempts>>

\* requests.put raises (transport error): acknowledge_incident has no handler
AcknowledgeRaises ==
  /\ AtIncident
  /\ ~Age.raises
  /\ IsEligible(Age.age, interval_minutes)
  /\ evaluated' = Append(evaluated, Evaluation)
  /\ attempts' = Append(attempts, Attempt("raise"))
  /\ Raise("ack")
  /\ UNCHANGED <<interval_minutes, user_id, acc, incidents, triggered, idx>>
  /\ UNCHANGED <<envVars, runHist, budgets>>
  /\ UNCHANGED <<fetchedOk, snapshot, fetchTime, fetchFailed, notes, chan, prevAttempts>>

\* lines 247-254 raise after the acknowledgment returned True: the record's
\* display fields are not what format_incident_oneline and the summary slice
\* expect ("service": null, "summary": null); send_notification is not called
ComposeRaises ==
  /\ pc = "notify_terminal"
  /\ Raise("compose")
  /\ UNCHANGED <<interval_minutes, user_id, acc, incidents, triggered, idx>>
  /\ UNCHANGED <<envVars, runHist, budgets>>
  /\ UNCHANGED <<fetchedOk, snapshot, fetchTime, fetchFailed, evaluated, attempts,
                 notes, chan, prevAttempts>>

\* --------------------------------------- send_notification (lines 121-148)
\* send_terminal_notification: the writes to stdout succeed
NotifyTerminalOk ==
  /\ pc = "notify_terminal"
  /\ pc' = "notify_macos"
  /\ notes' = Append(notes, Inc.id)
  /\ chan' = [chan EXCEPT !.term = "ok"]
  /\ UNCHANGED <<interval_minutes, user_id, acc, incidents, triggered, idx>>
  /\ UNCHANGED <<envVars, runHist, budgets>>
  /\ UNCHANGED <<fetchedOk, snapshot, fetchTime, fetchFailed, evaluated, attempts,
                 raisedBy, prevAttempts>>

\* sys.stdout.write / flush raises: nothing catches it before the daemon's
\* handler, and send_macos_notification is not reached
NotifyTerminalRaises ==
  /\ pc = "notify_terminal"
  /\ notes' = Append(notes, Inc.id)
  /\ chan' = [chan EXCEPT !.term = "raised"]
  /\ Raise("notify")
  /\ UNCHANGED <<interval_minutes, user_id, acc, incidents, triggered, idx>>
  /\ UNCHANGED <<envVars, runHist, budgets>>
  /\ UNCHANGED <<fetchedOk, snapshot, fetchTime, fetchFailed, evaluated, attempts,
                 prevAttempts>>

\* send_macos_notification: osascript runs; its exit status is not looked at
\* (subprocess.run without check=True)
NotifyMacosRuns ==
  /\ pc = "notify_macos"
  /\ \E returncode \in {0, 1} : chan' = [chan EXCEPT !.mac = "ran"]
  /\ pc' = "loop"
  /\ idx' = idx + 1
  /\ UNCHANGED <<interval_minutes, user_id, acc, incidents, triggered>>
  /\ UNCHANGED <<envVars, runHist, budgets>>
  /\ UNCHANGED <<fetchedOk, snapshot, fetchTime, fetchFailed, evaluated, attempts,
                 notes, raisedBy, prevAttempts>>

\* osascript is not installed: subprocess.run raises FileNotFoundError
NotifyMacosAbsent ==
  /\ pc = "notify_macos"
  /\ chan' = [chan EXCEPT !.mac = "raised"]
  /\ Raise("notify")
  /\ UNCHANGED <<interval_minutes, user_id, acc, incidents, triggered, idx>>
  /\ UNCHANGED <<envVars, runHist, budgets>>
  /\ UNCHANGED <<fetchedOk, snapshot, fetchTime, fetchFailed, evaluated, attempts,
                 notes, prevAttempts>>

\* ------------------------------------------- end of the cycle (257-264)
\* the for loop is exhausted
LoopDone ==
  /\ pc = "loop"
  /\ idx > Len(triggered)
  /\ pc' = "sleep"
  /\ UNCHANGED <<interval_minutes, user_id, acc, incidents, triggered, idx>>
  /\ UNCHANGED <<envVars, cycleHist, runHist, budgets>>

\* a sleep returns and "while True" starts the next cycle
BeginCycle_resolve ==
  /\ cycle < MaxCycles
  /\ pc' = "fetch_triggered"
  /\ now' = now + sleep_ticks
  /\ sleeps' = sleeps + 1
  /\ cycle' = cycle + 1
  /\ resolves' = resolves + 1
  /\ prevAttempts' = [k \in 1..Len(attempts) |-> [id |-> attempts[k].id, res |-> attempts[k].res]]
  /\ fetchedOk' = FALSE
  /\ snapshot' = <<>>
  /\ fetchTime' = 0
  /\ fetchFailed' = FALSE
  /\ evaluated' = <<>>
  /\ attempts' = <<>>
  /\ notes' = <<>>
  /\ chan' = NoChan
  /\ raisedBy' = "none"
  /\ UNCHANGED <<interval_minutes, user_id, acc, incidents, triggered, idx>>
  /\ UNCHANGED <<remote, created_at, exitBy, stopMsg, interruptedAt, budgets>>

BeginCycle ==
  /\ cycle < MaxCycles
  /\ pc' = "fetch_triggered"
  /\ now' = now + sleep_ticks
  /\ sleeps' = sleeps + 1
  /\ cycle' = cycle + 1
  /\ prevAttempts' = [k \in 1..Len(attempts) |-> [id |-> attempts[k].id, res |-> attempts[k].res]]
  /\ fetchedOk' = FALSE
  /\ snapshot' = <<>>
  /\ fetchTime' = 0
  /\ fetchFailed' = FALSE
  /\ evaluated' = <<>>
  /\ attempts' = <<>>
  /\ notes' = <<>>
  /\ chan' = NoChan
  /\ raisedBy' = "none"
  /\ UNCHANGED <<interval_minutes, user_id, acc, incidents, triggered, idx>>
  /\ UNCHANGED <<remote, created_at, resolves, exitBy, stopMsg, interruptedAt, budgets>>

\* time.sleep(sleep_seconds) at line 257, inside the try
SleepOk ==
  /\ pc = "sleep"
  /\ sleep_ticks >= 0
  /\ BeginCycle

\* time.sleep of a negative length raises ValueError
SleepRaises ==
  /\ pc = "sleep"
  /\ sleep_ticks < 0
  /\ Raise("sleep")
  /\ UNCHANGED <<interval_minutes, user_id, acc, incidents, triggered, idx>>
  /\ UNCHANGED <<envVars, runHist, budgets>>
  /\ UNCHANGED <<fetchedOk, snapshot, fetchTime, fetchFailed, evaluated, attempts,
                 notes, chan, prevAttempts>>

\* except Exception: print the error, then time.sleep at line 264
HandlerSleepOk ==
  /\ pc = "handler"
  /\ sleep_ticks >= 0
  /\ BeginCycle

\* the handler's own sleep raises: nothing encloses it
HandlerSleepRaises ==
  /\ pc = "handler"
  /\ sleep_ticks < 0
  /\ pc' = "crashed"
  /\ exitBy' = "ValueError"
  /\ UNCHANGED <<interval_minutes, user_id, acc, incidents, triggered, idx>>
  /\ UNCHANGED <<envVars, cycleHist, cycle, resolves, sleeps, stopMsg, interruptedAt, budgets>>

\* ------------------------------------------------------------ interrupt
\* KeyboardInterrupt raised inside the try: lines 259-261
InterruptInTry ==
  /\ pc \in InTry
  /\ pc' = "stopped"
  /\ stopMsg' = TRUE
  /\ exitBy' = "interrupt"
  /\ interruptedAt' = pc
  /\ UNCHANGED <<interval_minutes, user_id, acc, incidents, triggered, idx>>
  /\ UNCHANGED <<envVars, cycleHist, cycle, resolves, sleeps, budgets>>

\* KeyboardInterrupt raised while the except-Exception clause runs (its print
\* or its sleep): no enclosing try, it leaves background_ack uncaught
InterruptInHandler ==
  /\ pc = "handler"
  /\ pc' = "crashed"
  /\ exitBy' = "KeyboardInterrupt"
  /\ interruptedAt' = pc
  /\ UNCHANGED <<interval_minutes, user_id, acc, incidents, triggered, idx>>
  /\ UNCHANGED <<envVars, cycleHist, cycle, resolves, sleeps, stopMsg, budgets>>

\* ----------------------------------------------------------- environment
\* the clock advances while a cycle runs (the calls take time); the program
\* reads it only when an age is computed, so a tick is taken just before
Tick ==
  /\ pc = "loop"
  /\ envMoves < MaxEnv
  /\ envMoves' = envMoves + 1
  /\ now' = now + 1
  /\ UNCHANGED <<progVars, remote, created_at, cycleHist, runHist>>

\* another responder (or the service's acknowledgment timeout) changes an
\* incident's status; the daemon reads the service's state only in the two
\* requests of get_incidents, so a change is taken just before one
RemoteChange ==
  /\ pc \in {"fetch_triggered", "fetch_acknowledged"}
  /\ envMoves < MaxEnv
  /\ \E i \in Ids, s \in Statuses :
       /\ <<remote[i], s>> \in { <<"triggered", "acknowledged">>,
                                 <<"triggered", "resolved">>,
                                 <<"acknowledged", "resolved">>,
                                 <<"acknowledged", "triggered">> }
       /\ remote' = [remote EXCEPT ![i] = s]
  /\ envMoves' = envMoves + 1
  /\ UNCHANGED <<progVars, created_at, now, cycleHist, runHist>>

Next ==
  \/ ResolveUserOk
  \/ ResolveUserFail
  \/ FetchTriggeredOk
  \/ FetchTriggeredFail
  \/ FetchAcknowledgedOk
  \/ FetchAcknowledgedFail
  \/ EvaluateRaises
  \/ SkipYoung
  \/ AcknowledgeTrue
  \/ AcknowledgeFalse
  \/ AcknowledgeRaises
  \/ ComposeRaises
  \/ NotifyTerminalOk
  \/ NotifyTerminalRaises
  \/ NotifyMacosRuns
  \/ NotifyMacosAbsent
  \/ LoopDone
  \/ SleepOk
  \/ SleepRaises
  \/ HandlerSleepOk
  \/ HandlerSleepRaises
  \/ InterruptInTry
  \/ InterruptInHandler
  \/ Tick
  \/ RemoteChange

Spec == Init /\ [][Next]_vars

TypeOK ==
  /\ pc \in InTry \cup Terminal \cup {"start", "handler"}
  /\ idx \in 0..(2 * NumIncidents + 1)
  /\ cycle \in 0..MaxCycles

\* ======================================================================
\* ack_all (lines 198-215): the one-shot command, run to its end
\* ======================================================================
AllRunning == {"all_start", "all_fetch_triggered", "all_fetch_acknowledged",
               "all_loop", "all_report"}
AllInc == triggered[idx]
AllAttempt(res) == [id |-> AllInc.id, rec |-> AllInc, pos |-> idx, res |-> res]
\* an exception leaves ack_all: nothing in it or in main catches it
AllUncaught(kind) ==
  /\ pc' = "crashed"
  /\ exitBy' = kind

\* -a is dispatched by main; -i is parsed as well but ack_all does not take it
InitAckAll ==
  /\ pc = "all_start"
  /\ interval_minutes \in Intervals
  /\ user_id = "none"
  /\ acc = <<>>
  /\ incidents = <<>>
  /\ triggered = <<>>
  /\ idx = 0
  /\ remote \in [Ids -> {"triggered", "acknowledged"}]
  /\ created_at \in [Ids -> CreatedAts]
  /\ now = Now0
  /\ cycle = 0
  /\ resolves = 0
  /\ fetchedOk = FALSE
  /\ snapshot = <<>>
  /\ fetchTime = 0
  /\ fetchFailed = FALSE
  /\ evaluated = <<>>
  /\ attempts = <<>>
  /\ notes = <<>>
  /\ chan = NoChan
  /\ raisedBy = "none"
  /\ sleeps = 0
  /\ prevAttempts = <<>>
  /\ exitBy = "none"
  /\ stopMsg = FALSE
  /\ interruptedAt = "none"
  /\ envMoves = 0

\* user_id = get_current_user_id(api_key)
AllResolveUserOk ==
  /\ pc = "all_start"
  /\ pc' = "all_fetch_triggered"
  /\ user_id' = "U1"
  /\ resolves' = resolves + 1
  /\ UNCHANGED <<interval_minutes, acc, incidents, triggered, idx>>
  /\ UNCHANGED <<envVars, cycleHist, cycle, sleeps, exitBy, stopMsg, interruptedAt,
                 budgets>>

AllResolveUserFail ==
  /\ pc = "all_start"
  /\ AllUncaught("startup")
  /\ resolves' = resolves + 1
  /\ UNCHANGED <<interval_minutes, user_id, acc, incidents, triggered, idx>>
  /\ UNCHANGED <<envVars, cycleHist, cycle, sleeps, stopMsg, interruptedAt, budgets>>

\* incidents = get_incidents(api_key, user_id): the two requests
AllFetchTriggeredOk ==
  /\ pc = "all_fetch_triggered"
  /\ pc' = "all_fetch_acknowledged"
  /\ acc' = IncidentsResponse("triggered")
  /\ UNCHANGED <<interval_minutes, user_id, incidents, triggered, idx>>
  /\ UNCHANGED <<envVars, cycleHist, runHist, budgets>>

AllFetchTriggeredFail ==
  /\ pc = "all_fetch_triggered"
  /\ AllUncaught("fetch_triggered")
  /\ fetchFailed' = TRUE
  /\ acc' = <<>>
  /\ UNCHANGED <<interval_minutes, user_id, incidents, triggered, idx>>
  /\ UNCHANGED <<envVars, cycle, resolves, sleeps, stopMsg, interruptedAt, budgets>>
  /\ UNCHANGED <<fetchedOk, snapshot, fetchTime, evaluated, attempts, notes, chan,
                 raisedBy, prevAttempts>>

\* the second request succeeds; line 202 filters the result
AllFetchAcknowledgedOk ==
  /\ pc = "all_fetch_acknowledged"
  /\ pc' = "all_loop"
  /\ LET result == acc \o IncidentsResponse("acknowledged")
     IN /\ incidents' = result
        /\ triggered' = FilterTriggered(result)
        /\ snapshot' = result
  /\ idx' = 1
  /\ acc' = <<>>
  /\ fetchedOk' = TRUE
  /\ fetchTime' = now
  /\ UNCHANGED <<interval_minutes, user_id>>
  /\ UNCHANGED <<envVars, runHist, budgets>>
  /\ UNCHANGED <<fetchFailed, evaluated, attempts, notes, chan, raisedBy, prevAttempts>>

AllFetchAcknowledgedFail ==
  /\ pc = "all_fetch_acknowledged"
  /\ AllUncaught("fetch_acknowledged")
  /\ fetchFailed' = TRUE
  /\ acc' = <<>>
  /\ UNCHANGED <<interval_minutes, user_id, incidents, triggered, idx>>
  /\ UNCHANGED <<envVars, cycle, resolves, sleeps, stopMsg, interruptedAt, budgets>>
  /\ UNCHANGED <<fetchedOk, snapshot, fetchTime, evaluated, attempts, notes, chan,
                 raisedBy, prevAttempts>>

\* for inc in triggered: acknowledge_incident(api_key, inc["id"]) returns True
\* (no age is computed: created_at is not read)
AllAcknowledgeTrue ==
  /\ pc = "all_loop"
  /\ idx <= Len(triggered)
  /\ remote[AllInc.id] # "resolved"
  /\ acknowledge_result(HTTP_OK)
  /\ remote' = [remote EXCEPT ![AllInc.id] = "acknowledged"]
  /\ attempts' = Append(attempts, AllAttempt("true"))
  /\ pc' = "all_report"
  /\ UNCHANGED <<interval_minutes, user_id, acc, incidents, triggered, idx>>
  /\ UNCHANGED <<created_at, now, runHist, budgets>>
  /\ UNCHANGED <<fetchedOk, snapshot, fetchTime, fetchFailed, evaluated, notes, chan,
                 raisedBy, prevAttempts>>

\* acknowledge_incident returns False: the else branch prints FAILED
AllAcknowledgeFalse_stop ==
  /\ pc = "all_loop"
  /\ idx <= Len(triggered)
  /\ \E status_code \in {HTTP_OK, 409} : ~acknowledge_result(status_code)
  /\ attempts' = Append(attempts, AllAttempt("false"))
  /\ pc' = "done"
  /\ UNCHANGED <<interval_minutes, user_id, acc, incidents, triggered, idx>>
  /\ UNCHANGED <<envVars, runHist, budgets>>
  /\ UNCHANGED <<fetchedOk, snapshot, fetchTime, fetchFailed, evaluated, notes, chan,
                 raisedBy, prevAttempts>>

AllAcknowledgeFalse ==
  /\ pc = "all_loop"
  /\ idx <= Len(triggered)
  /\ \E status_code \in {HTTP_OK, 409} : ~acknowledge_result(status_code)
  /\ attempts' = Append(attempts, AllAttempt("false"))
  /\ pc' = "all_report"
  /\ UNCHANGED <<interval_minutes, user_id, acc, incidents, triggered, idx>>
  /\ UNCHANGED <<envVars, runHist, budgets>>
  /\ UNCHANGED <<fetchedOk, snapshot, fetchTime, fetchFailed, evaluated, notes, chan,
                 raisedBy, prevAttempts>>

\* requests.put raises: the exception leaves the for loop and ack_all
AllAcknowledgeRaises ==
  /\ pc = "all_loop"
  /\ idx <= Len(triggered)
  /\ attempts' = Append(attempts, AllAttempt("raise"))
  /\ AllUncaught("ack")
  /\ UNCHANGED <<interval_minutes, user_id, acc, incidents, triggered, idx>>
  /\ UNCHANGED <<envVars, cycle, resolves, sleeps, stopMsg, interruptedAt, budgets>>
  /\ UNCHANGED <<fetchedOk, snapshot, fetchTime, fetchFailed, evaluated, notes, chan,
                 raisedBy, prevAttempts>>

\* the print of line 211 or 213 returns: on to the next incident
AllReportOk ==
  /\ pc = "all_report"
  /\ pc' = "all_loop"
  /\ idx' = idx + 1
  /\ UNCHANGED <<interval_minutes, user_id, acc, incidents, triggered>>
  /\ UNCHANGED <<envVars, cycleHist, runHist, budgets>>

\* the print raises (standard output is closed, or "summary" is null in
\* line 211's slice)
AllReportRaises ==
  /\ pc = "all_report"
  /\ AllUncaught("report")
  /\ UNCHANGED <<interval_minutes, user_id, acc, incidents, triggered, idx>>
  /\ UNCHANGED <<envVars, cycleHist, cycle, resolves, sleeps, stopMsg, interruptedAt,
                 budgets>>

\* the list is empty (lines 204-206) or the loop is over (line 215)
AllReturn ==
  /\ pc = "all_loop"
  /\ idx > Len(triggered)
  /\ pc' = "done"
  /\ UNCHANGED <<interval_minutes, user_id, acc, incidents, triggered, idx>>
  /\ UNCHANGED <<envVars, cycleHist, runHist, budgets>>

\* Ctrl+C: ack_all has no handler for KeyboardInterrupt
AllInterrupt ==
  /\ pc \in AllRunning
  /\ AllUncaught("KeyboardInterrupt")
  /\ interruptedAt' = pc
  /\ UNCHANGED <<interval_minutes, user_id, acc, incidents, triggered, idx>>
  /\ UNCHANGED <<envVars, cycleHist, cycle, resolves, sleeps, stopMsg, budgets>>

\* another responder changes an incident's status before a request of the
\* command reads or writes it
AllRemoteChange ==
  /\ pc \in {"all_fetch_triggered", "all_fetch_acknowledged", "all_loop"}
  /\ envMoves < MaxEnv
  /\ \E i \in Ids, s \in Statuses :
       /\ <<remote[i], s>> \in { <<"triggered", "acknowledged">>,
                                 <<"triggered", "resolved">>,
                                 <<"acknowledged", "resolved">>,
                                 <<"acknowledged", "triggered">> }
       /\ remote' = [remote EXCEPT ![i] = s]
  /\ envMoves' = envMoves + 1
  /\ UNCHANGED <<progVars, created_at, now, cycleHist, runHist>>

NextAckAll ==
  \/ AllResolveUserOk
  \/ AllResolveUserFail
  \/ AllFetchTriggeredOk
  \/ AllFetchTriggeredFail
  \/ AllFetchAcknowledgedOk
  \/ AllFetchAcknowledgedFail
  \/ AllAcknowledgeTrue
  \/ AllAcknowledgeFalse
  \/ AllAcknowledgeRaises
  \/ AllReportOk
  \/ AllReportRaises
  \/ AllReturn
  \/ AllInterrupt
  \/ AllRemoteChange

SpecAckAll == InitAckAll /\ [][NextAckAll]_vars

\* ======================================================================
\* Properties
\* ======================================================================
Threshold == interval_minutes * TicksPerMinute
\* the "triggered" records of this cycle's fetch, in fetch order
TrigSnap == SelectSeq(snapshot, LAMBDA i : i.status = "triggered")
AttemptedIds == IdsOf(attempts)
EvaluatedAt(k) == \E j \in 1..Len(evaluated) : evaluated[j].pos = k
AttemptedAt(k) == \E j \in 1..Len(attempts) : attempts[j].pos = k
\* the try block's work is over: it reached its sleep or its handler
CycleOver == pc \in {"sleep", "handler"}
\* the record's timestamp parses and it was old enough when the fetch returned
OldAtFetch(r) ==
  /\ r.created_at.fmt # "garbage"
  /\ fetchTime - r.created_at.t >= Threshold

\* C1: every acknowledgment call of the daemon, in every cycle, is made for a
\* record whose status in the fetched data is "triggered"; an incident the
\* fetch reports only as acknowledged (or anything else) is never attempted.
C1_OnlyTriggeredAttempted ==
  /\ \A k \in 1..Len(attempts) : attempts[k].rec.status = "triggered"
  /\ \A j \in 1..Len(snapshot) :
       (snapshot[j].status # "triggered" /\ snapshot[j].id \notin IdsOf(TrigSnap))
          => snapshot[j].id \notin AttemptedIds

C1_Witness ==
  /\ interval_minutes >= 1
  /\ cycle >= 2
  /\ Len(attempts) > 0
  /\ \E j \in 1..Len(snapshot) :
       /\ snapshot[j].status = "acknowledged"
       /\ OldAtFetch(snapshot[j])

\* C2 (as stated), for a positive interval: when the cycle's work is over, a
\* triggered incident of the fetch has been submitted for acknowledgment if
\* and only if its age is >= interval.
C2_AttemptedIffOldEnough ==
  (interval_minutes >= 1 /\ CycleOver /\ fetchedOk) =>
    /\ \A k \in 1..Len(TrigSnap) :
         OldAtFetch(TrigSnap[k]) => TrigSnap[k].id \in AttemptedIds
    /\ \A j \in 1..Len(attempts) : attempts[j].age >= Threshold

\* C2 (amended): every triggered incident whose age the loop computes is
\* submitted if and only if that age is >= interval (boundary included), a
\* cycle that reaches its sleep has computed the age of every triggered
\* incident of the fetch, and nothing is submitted without an age >= interval.
C2_EvaluatedAttemptedIffOldEnough ==
  /\ \A j \in 1..Len(evaluated) :
       (evaluated[j].age >= Threshold) <=> AttemptedAt(evaluated[j].pos)
  /\ \A j \in 1..Len(attempts) :
       /\ attempts[j].age >= Threshold
       /\ EvaluatedAt(attempts[j].pos)
  /\ (pc = "sleep" /\ fetchedOk) => \A k \in 1..Len(TrigSnap) : EvaluatedAt(k)

\* an incident exactly at the boundary was attempted and one just below it
\* was evaluated and left alone
C2_Witness ==
  /\ interval_minutes >= 1
  /\ \E j \in 1..Len(attempts) : attempts[j].age = Threshold
  /\ \E j \in 1..Len(evaluated) :
       /\ evaluated[j].age = Threshold - 1
       /\ ~AttemptedAt(evaluated[j].pos)

\* C3: an exception raised during a cycle never terminates the daemon (only
\* an interrupt ends the loop), and exactly one sleep separates each cycle
\* from the next.
C3_ExceptionsNeverTerminate ==
  /\ (pc \in Terminal /\ cycle >= 1) => exitBy \in {"interrupt", "KeyboardInterrupt"}
  /\ cycle >= 1 => sleeps = cycle - 1

\* C4, for a positive interval: a notification failure after a successful
\* acknowledgment is never a cycle failure, and the remaining eligible
\* incidents of the fetch are still submitted in that cycle.
C4_NotifyFailureNotCycleFailure ==
  interval_minutes >= 1 =>
    /\ ~(pc = "handler" /\ raisedBy = "notify")
    /\ (CycleOver /\ fetchedOk /\ "raised" \in {chan.term, chan.mac}) =>
         \A k \in 1..Len(TrigSnap) : OldAtFetch(TrigSnap[k]) => AttemptedAt(k)

\* C5, in a daemon with a positive interval: send_notification never raises
\* to its caller, and once it is over the OS-native channel has been attempted
\* whatever happened to the terminal one.
C5_NotifyNeverRaises ==
  interval_minutes >= 1 =>
    /\ raisedBy # "notify"
    /\ chan.term = "raised" => chan.mac # "none"

\* C6: when an acknowledgment returns False, the daemon sends no notification
\* for the incident, raises nothing, moves on to the next incident of the
\* list, and no incident is attempted twice in a cycle.
C6_FalseStep ==
  (/\ Len(attempts') = Len(attempts) + 1
   /\ attempts'[Len(attempts')].res = "false")
     => /\ pc' = "loop"
        /\ idx' = idx + 1
        /\ notes' = notes
        /\ raisedBy' = raisedBy
        /\ exitBy' = exitBy
C6_FalseState ==
  /\ \A j \in 1..Len(attempts) :
       attempts[j].res = "false" => attempts[j].id \notin Range(notes)
  /\ \A i, j \in 1..Len(attempts) : attempts[i].id = attempts[j].id => i = j
C6_AckFalseIsQuiet == [][C6_FalseStep]_vars /\ []C6_FalseState

\* a refused incident was followed by the processing of the next one
C6_Witness ==
  \E i, j \in 1..Len(attempts) :
    /\ interval_minutes >= 1
    /\ attempts[i].res = "false"
    /\ attempts[j].pos > attempts[i].pos
    /\ attempts[i].id \notin Range(notes)

\* C7, for a positive interval: an interrupt delivered anywhere in the loop
\* leads to the Stopped state with the shutdown message printed, and nothing
\* but an interrupt ends the loop.
C7_InterruptStopsGracefully ==
  interval_minutes >= 1 =>
    /\ interruptedAt # "none" => (pc = "stopped" /\ stopMsg)
    /\ (pc \in Terminal /\ cycle >= 1) => interruptedAt # "none"

\* C8 (as stated), for a positive interval: an incident whose acknowledgment
\* returned False in the previous cycle and that this cycle's fetch returns as
\* triggered and old enough has been attempted again when this cycle's work
\* is over.
C8_RetriedNextCycle ==
  (interval_minutes >= 1 /\ CycleOver /\ fetchedOk) =>
    \A k \in 1..Len(TrigSnap) :
      (TrigSnap[k].id \in PrevFalse /\ OldAtFetch(TrigSnap[k]))
         => TrigSnap[k].id \in AttemptedIds

\* C8 (amended): such an incident is attempted again by the next cycle unless
\* that cycle is cut short before reaching it: the only states in which it is
\* not attempted are those where the loop has not come to it yet, where the
\* processing of an incident listed before it raised, or where the daemon was
\* interrupted before it.
C8_RetriedUnlessCutShort ==
  fetchedOk =>
    \A k \in 1..Len(TrigSnap) :
      (TrigSnap[k].id \in PrevFalse /\ OldAtFetch(TrigSnap[k]))
         => \/ TrigSnap[k].id \in AttemptedIds
            \/ pc \in {"loop", "stopped"} /\ idx <= k
            \/ pc \in {"notify_terminal", "notify_macos", "handler", "crashed"} /\ idx < k

C8_Witness ==
  /\ interval_minutes >= 1
  /\ cycle >= 2
  /\ \E j \in 1..Len(attempts) : attempts[j].id \in PrevFalse

\* C9: every acknowledgment attempt of a cycle is made for a record that the
\* same cycle's fetch returned with status "triggered"; before the cycle's
\* fetch has returned nothing is evaluated or attempted.
C9_AttemptsFromSameFetch ==
  /\ \A j \in 1..Len(attempts) :
       /\ fetchedOk
       /\ attempts[j].rec \in Range(TrigSnap)
  /\ ~fetchedOk => (attempts = <<>> /\ evaluated = <<>>)

\* an incident acknowledged in the previous cycle is reported as acknowledged
\* by this cycle's fetch, and this cycle attempts another one
C9_Witness ==
  /\ interval_minutes >= 1
  /\ cycle >= 2
  /\ Len(attempts) > 0
  /\ \E j \in 1..Len(prevAttempts), k \in 1..Len(snapshot) :
       /\ prevAttempts[j].res = "true"
       /\ snapshot[k].id = prevAttempts[j].id
       /\ snapshot[k].status = "acknowledged"

\* C10: when the request for either status fails, get_incidents hands no list
\* to the daemon: the cycle goes to its handler and makes no acknowledgment
\* attempt and no notification.
C10_FetchAllOrNothing ==
  fetchFailed =>
    /\ pc \in {"handler", "crashed"}
    /\ ~fetchedOk
    /\ snapshot = <<>>
    /\ evaluated = <<>>
    /\ attempts = <<>>
    /\ notes = <<>>

\* the second request failed although the first one had returned an incident
\* that was old enough to be acknowledged
C10_Witness ==
  /\ interval_minutes >= 1
  /\ fetchFailed
  /\ raisedBy = "fetch_acknowledged"
  /\ \E i \in Ids :
       /\ remote[i] = "triggered"
       /\ created_at[i].fmt # "garbage"
       /\ now - created_at[i].t >= Threshold

\* ids of the incidents whose acknowledgment returned True in this cycle, in
\* the order of the attempts
TrueIds ==
  LET sel == SelectSeq(attempts, LAMBDA a : a.res = "true")
  IN [k \in 1..Len(sel) |-> sel[k].id]
\* the creation instant of the incident an evaluation was made for
CreatedOf(e) == triggered[e.pos].created_at.t

\* C11, for a positive interval: all ages of one cycle are computed against
\* the same instant, so two incidents of the cycle with the same creation time
\* get the same eligibility decision.
C11_SameInstantPerCycle ==
  interval_minutes >= 1 =>
    \A i, j \in 1..Len(evaluated) :
      /\ evaluated[i].age + CreatedOf(evaluated[i])
           = evaluated[j].age + CreatedOf(evaluated[j])
      /\ CreatedOf(evaluated[i]) = CreatedOf(evaluated[j])
           => (evaluated[i].age >= Threshold <=> evaluated[j].age >= Threshold)

\* C12: the current user is resolved exactly once, before the first cycle; a
\* failed resolution is fatal and nothing is fetched, acknowledged or notified
\* after it; every cycle runs with the id resolved at startup.
C12_UserResolvedOnce ==
  /\ resolves <= 1
  /\ pc = "start" => (resolves = 0 /\ cycle = 0)
  /\ cycle >= 1 => (resolves = 1 /\ user_id = "U1")
  /\ exitBy = "startup" =>
       /\ pc = "crashed"
       /\ cycle = 0
       /\ user_id = "none"
       /\ ~fetchedOk /\ ~fetchFailed
       /\ acc = <<>> /\ snapshot = <<>>
       /\ attempts = <<>> /\ notes = <<>>

C12_Witness ==
  /\ interval_minutes >= 1
  /\ cycle >= 2
  /\ fetchedOk
  /\ Len(attempts) > 0
  /\ resolves = 1

\* C13: the daemon never runs a cycle with an interval that is not positive.
C13_IntervalPositive ==
  cycle >= 1 => interval_minutes >= 1

\* C14, for a positive interval: when a cycle's work is over, send_notification
\* has been called exactly once for each incident whose acknowledgment returned
\* True in the cycle, in the same order, and for no other incident.
C14_NotesMatchSuccesses ==
  (interval_minutes >= 1 /\ CycleOver) => notes = TrueIds

\* C15: the list get_incidents returns is the response to the "triggered"
\* request followed by the response to the "acknowledged" request, each in the
\* order returned; its length is the sum of the two.
C15_ConcatStep ==
  /\ (pc = "fetch_triggered" /\ pc' = "fetch_acknowledged")
       => acc' = IncidentsResponse("triggered")
  /\ (pc = "fetch_acknowledged" /\ pc' = "loop")
       => LET second == IncidentsResponse("acknowledged")
          IN /\ incidents' = acc \o second
             /\ snapshot' = incidents'
             /\ Len(incidents') = Len(acc) + Len(second)
             /\ \A k \in 1..Len(acc) : incidents'[k] = acc[k]
             /\ \A k \in 1..Len(second) : incidents'[Len(acc) + k] = second[k]
C15_ConcatState ==
  fetchedOk =>
    \A i, j \in 1..Len(snapshot) :
      i < j =>
        /\ ~(snapshot[i].status = "acknowledged" /\ snapshot[j].status = "triggered")
        /\ snapshot[i].status = snapshot[j].status => snapshot[i].id < snapshot[j].id
C15_FetchIsConcatenation == [][C15_ConcatStep]_vars /\ []C15_ConcatState

\* both requests returned records, and one incident is in both responses
\* because another responder acknowledged it between the two requests
C15_Witness ==
  /\ interval_minutes >= 1
  /\ fetchedOk
  /\ Len(snapshot) = NumIncidents + 1
  /\ snapshot[1].status = "triggered"
  /\ snapshot[Len(snapshot)].status = "acknowledged"
  /\ incidents = snapshot

\* C16 (as stated): when ack_all has ended after its fetch, it has submitted
\* exactly one acknowledgment for every "triggered" record of the fetch,
\* whatever the record's age, and none for a record with another status.
C16_AllTriggeredAttempted ==
  (pc \in {"done", "crashed"} /\ fetchedOk) =>
    /\ \A k \in 1..Len(TrigSnap) :
         Cardinality({ j \in 1..Len(attempts) : attempts[j].rec = TrigSnap[k] }) = 1
    /\ \A j \in 1..Len(attempts) : attempts[j].rec.status = "triggered"

\* C16 (amended): ack_all submits acknowledgments for the "triggered" records
\* of its single fetch in fetch order, one each, with no age test, and for no
\* other record; a False return is followed by the next record, so when
\* ack_all returns every triggered record has been submitted exactly once;
\* only an exception (a raising request or print, Ctrl+C) ends the command
\* with the records after that point not submitted.
C16_AttemptsArePrefix ==
  /\ Len(attempts) <= Len(TrigSnap)
  /\ \A j \in 1..Len(attempts) :
       /\ attempts[j].pos = j
       /\ attempts[j].rec = TrigSnap[j]
       /\ attempts[j].rec.status = "triggered"
  /\ \A i, j \in 1..Len(attempts) : attempts[i].id = attempts[j].id => i = j
  /\ (pc = "done" /\ fetchedOk) =>
       /\ Len(attempts) = Len(TrigSnap)
       /\ \A j \in 1..Len(attempts) : attempts[j].res \in {"true", "false"}
  /\ (pc = "crashed" /\ fetchedOk /\ Len(attempts) < Len(TrigSnap)) =>
       /\ exitBy \in {"ack", "report", "KeyboardInterrupt"}
       /\ \A j \in 1..Len(attempts) :
            attempts[j].res = "false" => (j < Len(attempts) \/ exitBy # "ack")
  /\ pc \in AllRunning \cup {"done", "crashed"}

\* ack_all returned after a False for the first record and an acknowledgment
\* of the second, whose created_at does not even parse, at an interval under
\* which the daemon would not have acknowledged it
C16_Witness ==
  /\ pc = "done"
  /\ Len(TrigSnap) = 2
  /\ Len(attempts) = 2
  /\ attempts[1].res = "false"
  /\ attempts[2].res = "true"
  /\ attempts[2].rec.created_at.fmt = "garbage"
  /\ interval_minutes >= 1

\* C17: the incidents of a cycle are processed in fetch order; once the
\* processing of one raises, nothing listed after it is evaluated or submitted
\* in that cycle; an incident whose created_at does not parse therefore keeps
\* every incident listed after it from being submitted, in every cycle in
\* which it is in the triggered list.
C17_RaiseBlocksLater ==
  /\ \A i, j \in 1..Len(attempts) : i < j => attempts[i].pos < attempts[j].pos
  /\ \A i, j \in 1..Len(evaluated) : i < j => evaluated[i].pos < evaluated[j].pos
  /\ \A j \in 1..Len(attempts) :
       /\ attempts[j].pos <= Len(TrigSnap)
       /\ attempts[j].rec = TrigSnap[attempts[j].pos]
  /\ (pc \in {"handler", "crashed"}
        /\ raisedBy \in {"timestamp", "ack", "notify", "compose"}) =>
       /\ \A j \in 1..Len(attempts) : attempts[j].pos <= idx
       /\ \A j \in 1..Len(evaluated) : evaluated[j].pos <= idx
  /\ fetchedOk =>
       \A k \in 1..Len(TrigSnap) :
         TrigSnap[k].created_at.fmt = "garbage" =>
           \A j \in 1..Len(attempts) : attempts[j].pos < k

\* in a later cycle the unparseable first incident still ends the cycle: the
\* old incident listed after it is not submitted, and was not in the cycle before
C17_Witness ==
  /\ interval_minutes >= 1
  /\ cycle >= 2
  /\ pc = "handler"
  /\ raisedBy = "timestamp"
  /\ Len(TrigSnap) = 2
  /\ TrigSnap[1].created_at.fmt = "garbage"
  /\ OldAtFetch(TrigSnap[2])
  /\ attempts = <<>>
  /\ prevAttempts = <<>>

====
